---- MODULE Spec2Model ----
(***************************************************************************)
(* Model of the Terminal component (src/src/components/Terminal.tsx): the  *)
(* typing reveal, the transcript, the navigation tree, the decision log    *)
(* and its persistence, and the window flags.                              *)
(*                                                                         *)
(* One step of the model is one browser task: the mount, a click, a key    *)
(* press or a timer callback, run to completion together with the renders  *)
(* and effects it causes (React batches the state updates of a task and    *)
(* runs the effects whose dependencies changed before the next task).      *)
(***************************************************************************)
EXTENDS Integers, Sequences, FiniteSets, TLC

VARIABLES
  items,             \* useState: the transcript rows
  isTyping,          \* useState
  hasLoaded,         \* useState
  sessionActions,    \* useState: the decision log
  reconstructedRef,  \* useRef: [set, items]; set = FALSE models null
  isOpen,            \* useState
  isMaximized,       \* useState
  navPath,           \* useState
  lastOpenedFileId,  \* useState
  skipTypingRef,     \* useRef
  messageCounter,    \* module-level counter behind nextId
  timers,            \* pending setTimeout callbacks, in scheduling order
  stSession,         \* sessionStorage['terminal-session']
  stWindow,          \* sessionStorage['terminal-window']
  hsLastOpened,      \* lastOpenedFileId as captured by the memoized handleSelect
  phase,             \* "constructed" | "running" | "crashed"
  quota,             \* TRUE when sessionStorage.setItem throws
  goatcounter,       \* "ok" | "absent" | "throws": window.goatcounter
  inputs,            \* history: the clicks and key presses so far
  calls,             \* history: key of each typeMessage call |-> its text and onDone calls
  resolved,          \* history: what the last task completed: the onDone closure it
                     \* ran, "folder" (a folder's menu shown), "file" (a file opened),
                     \* "enter" (a folder selected), "back" (Back activated),
                     \* "backAtRoot" (handleSelect('__back') called at root),
                     \* "idleSkip" (a key press that found no reveal), or "none"
  reloaded,          \* history: the page has been reloaded
  skipped,           \* history: keys of the reveals that were in flight when an
                     \* input arrived and have not resolved since
  before,            \* history: the path and the menus on show when the last input
                     \* selected a folder
  scenarioD,         \* history: how far the last inputs went through Experience ->
                     \* TechCorp -> Back -> Back from the root menu at root (0 to 4)
  tracked            \* history: the paths the last task handed to goatcounter.count

vars == << items, isTyping, hasLoaded, sessionActions, reconstructedRef, isOpen,
           isMaximized, navPath, lastOpenedFileId, skipTypingRef, messageCounter,
           timers, stSession, stWindow, hsLastOpened, phase, quota, goatcounter,
           inputs, calls, resolved, reloaded, skipped, before, scenarioD, tracked >>

-----------------------------------------------------------------------------
(* Bounds *)

\* cap on the user's inputs (clicks and key presses) after the page has loaded
MaxInputs == 4
\* every revealed text counts this many characters (the real texts have 20 to 80)
MaxChars == 2
\* cap on the selections of a stored decision log that is replayed
MaxSelects == 3

NULL == "null"

-----------------------------------------------------------------------------
(* Static content *)

WELCOME_MESSAGE == "Hello! I'm Daniel Gelencser, a software engineer. What would you like to know?"

RESTORING == "Restoring session..."

Opt(label, section) == [label |-> label, section |-> section]

MAIN_OPTIONS ==
  << Opt("About Me", "about"), Opt("Experience", "experience"),
     Opt("Projects", "projects"), Opt("Stack", "stack"),
     Opt("Extracurricular", "extracurricular"), Opt("Contact", "contact") >>

FOLLOW_UP_OPTIONS == MAIN_OPTIONS

getResponse(section) ==
  CASE section = "about" -> "I'm a software engineer passionate about building products that matter."
    [] section = "experience" -> "Work Experience: ..."
    [] section = "projects" -> "Projects: ..."
    [] section = "contact" -> "I'd love to hear from you! Click the button below to open the contact form."
    [] OTHER -> "Section not found."

Folder(id) == [id |-> id, label |-> id \o "/", type |-> "folder", content |-> ""]
File(id, content) == [id |-> id, label |-> id, type |-> "file", content |-> content]
Exec(id) == [id |-> id, label |-> id, type |-> "exec", content |-> ""]
Popup(id) == [id |-> id, label |-> id, type |-> "popup", content |-> ""]

NavKeys ==
  { "root", "experience", "experience/TechCorp", "projects", "projects/OpenMetrics",
    "stack", "extracurricular", "extracurricular/hobbies" }

NAV_TREE ==
  [ k \in NavKeys |->
      CASE k = "root" ->
             << File("bio.txt", "Hello - I'm Daniel Gelencser. ..."), Folder("experience"),
                Folder("projects"), Folder("stack"), Folder("extracurricular"),
                Exec("contact.sh") >>
        [] k = "experience" ->
             << Folder("TechCorp"), Folder("StartupX"), Folder("DevHouse") >>
        [] k = "experience/TechCorp" ->
             << File("summary.md", "Senior Software Engineer @ TechCorp (2022-Present) ..."),
                File("achievements.md", "- Migrated monolith to microservices ..."),
                Popup("migration-case-study.md") >>
        [] k = "projects" ->
             << Folder("OpenMetrics"), Folder("FlowKit"), Folder("Notifly") >>
        [] k = "projects/OpenMetrics" ->
             << File("readme.md", "OpenMetrics - a lightweight observability dashboard ..."),
                Popup("architecture.png"), Popup("full-breakdown.md") >>
        [] k = "stack" ->
             << Folder("languages"), Folder("infrastructure"), Folder("frontend") >>
        [] k = "extracurricular" ->
             << Folder("hobbies"),
                File("philosophy.txt", "I believe in clean code, gradual improvement, and mentoring teams.") >>
        [] k = "extracurricular/hobbies" ->
             << Popup("photography.jpg"),
                File("gaming.txt", "I enjoy indie game jams and tinkering with small game projects.") >> ]

\* NAV_TREE[key] || []
NavEntries(key) == IF key \in NavKeys THEN NAV_TREE[key] ELSE << >>

ROOT_MAP ==
  [ s \in {"about", "experience", "projects", "stack", "extracurricular", "contact"} |->
      CASE s = "about" -> "bio.txt"
        [] s = "contact" -> "contact.sh"
        [] OTHER -> s ]

typingTexts(section) ==
  CASE section = "experience" -> "Here's my work experience..."
    [] section = "projects" -> "Here are some projects I've worked on..."
    [] section = "contact" -> "Great, let's get in touch..."
    [] OTHER -> "Sure, here's a bit about me..."

\* text.length, cut to the bound
Chars(text) == MaxChars

-----------------------------------------------------------------------------
(* Rows, decisions, timers *)

TypingItem(key, text) == [kind |-> "typing", key |-> key, text |-> text, displayed |-> 0]
MessageItem(key, id, type, content) ==
  [kind |-> "message", key |-> key, data |-> [id |-> id, type |-> type, content |-> content]]
OptionsItem(key, options) == [kind |-> "options", key |-> key, options |-> options]
ContactBtnItem(key) == [kind |-> "contact-btn", key |-> key]

WelcomeAction == [type |-> "welcome"]
SelectAction(section, label) == [type |-> "select", section |-> section, label |-> label]

\* an onDone callback: which closure it is and what it captured
Done(tag, section, label) == [tag |-> tag, section |-> section, label |-> label]

\* a pending setTimeout: the callback, its delay in ms and what it captured
Timer(kind, delay, key, idx, text, done, newKey, lof) ==
  [kind |-> kind, delay |-> delay, key |-> key, idx |-> idx, text |-> text,
   done |-> done, newKey |-> newKey, lof |-> lof]

NoDone == Done("none", "", "")
TickTimer(key, idx, text, done) == Timer("tick", 30, key, idx, text, done, "", NULL)
BootRestoreTimer == Timer("bootRestore", 150, 0, 0, "", NoDone, "", NULL)
BootWelcomeTimer == Timer("bootWelcome", 400, 0, 0, "", NoDone, "", NULL)
ReplyTimer(section, label) == Timer("reply", 200, 0, 0, "", Done("reply", section, label), "", NULL)
ShowTimer(newKey, lof) == Timer("show", 200, 0, 0, "", NoDone, newKey, lof)

IsBootTimer(t) == t.kind \in {"bootRestore", "bootWelcome"}

notInteractive(i) == i.kind # "options" /\ i.kind # "contact-btn"
withoutInteractive(rows) == SelectSeq(rows, notInteractive)
notTyping(i) == i.kind # "typing"

RECURSIVE Join(_)
Join(path) ==
  IF Len(path) = 0 THEN ""
  ELSE IF Len(path) = 1 THEN path[1]
  ELSE path[1] \o "/" \o Join(Tail(path))

currentNavKey(path) == IF Len(path) <= 1 THEN "root" ELSE Join(Tail(path))

-----------------------------------------------------------------------------
(* The component's state as one record, so that a task's statements compose *)

Cur ==
  [ items |-> items, isTyping |-> isTyping, hasLoaded |-> hasLoaded,
    sessionActions |-> sessionActions, reconstructedRef |-> reconstructedRef,
    isOpen |-> isOpen, isMaximized |-> isMaximized, navPath |-> navPath,
    lastOpenedFileId |-> lastOpenedFileId, skipTypingRef |-> skipTypingRef,
    messageCounter |-> messageCounter, timers |-> timers, stSession |-> stSession,
    stWindow |-> stWindow, hsLastOpened |-> hsLastOpened, phase |-> phase,
    quota |-> quota, goatcounter |-> goatcounter, inputs |-> inputs, calls |-> calls,
    skipped |-> skipped, before |-> before, scenarioD |-> scenarioD,
    tracked |-> << >>,
    saSet |-> FALSE ]   \* saSet: setSessionActions ran in this task (a new array)

\* keys of the reveals in flight: the typeMessage calls with a pending tick
pendingKeys(ts) == { ts[i].key : i \in { j \in DOMAIN ts : ts[j].kind = "tick" } }

\* The task's result becomes the next state.
Commit(r, what) ==
  /\ items' = r.items
  /\ isTyping' = r.isTyping
  /\ hasLoaded' = r.hasLoaded
  /\ sessionActions' = r.sessionActions
  /\ reconstructedRef' = r.reconstructedRef
  /\ isOpen' = r.isOpen
  /\ isMaximized' = r.isMaximized
  /\ navPath' = r.navPath
  /\ lastOpenedFileId' = r.lastOpenedFileId
  /\ skipTypingRef' = r.skipTypingRef
  /\ messageCounter' = r.messageCounter
  /\ timers' = r.timers
  /\ stSession' = r.stSession
  /\ stWindow' = r.stWindow
  /\ hsLastOpened' = r.hsLastOpened
  /\ phase' = r.phase
  /\ quota' = r.quota
  /\ goatcounter' = r.goatcounter
  /\ inputs' = r.inputs
  /\ calls' = r.calls
  /\ resolved' = what
  /\ reloaded' = reloaded
  /\ skipped' = r.skipped \cap pendingKeys(r.timers)
  /\ before' = r.before
  /\ scenarioD' = r.scenarioD
  /\ tracked' = r.tracked

-----------------------------------------------------------------------------
(* Persistence *)

\* JSON.stringify of a decision list, and what JSON.parse makes of a stored text:
\* "list" an array of decisions, "scalar" a truthy number, string or true,
\* "object" a non-array object, "falsy" null, 0, false or "".
JSONstringify(actions) == [kind |-> "list", log |-> actions]

\* variant: saveSession without its try/catch
saveSessionUncaught(r, actions) ==
  IF r.quota THEN [r EXCEPT !.phase = "crashed"]
  ELSE [r EXCEPT !.stSession = JSONstringify(actions)]

saveSession(r, actions) ==
  IF r.quota THEN r ELSE [r EXCEPT !.stSession = JSONstringify(actions)]

\* null when the key is absent or the text does not parse, else the parsed value
loadSession(stored) ==
  IF stored.kind \in {"absent", "notjson"} THEN [kind |-> "null", log |-> << >>]
  ELSE stored

truthy(v) == v.kind \in {"scalar", "object", "list"}

\* variant: saveWindowState writing the open flag only
saveWindowStateOpenOnly(r, state) ==
  IF r.quota THEN r
  ELSE [r EXCEPT !.stWindow =
          [kind |-> "object", isOpen |-> state.isOpen, isMaximized |-> FALSE]]

saveWindowState(r, state) ==
  IF r.quota THEN r
  ELSE [r EXCEPT !.stWindow =
          [kind |-> "object", isOpen |-> state.isOpen, isMaximized |-> state.isMaximized]]

loadWindowState(stored) ==
  IF stored.kind \in {"absent", "notjson"}
  THEN [kind |-> "null", isOpen |-> FALSE, isMaximized |-> FALSE]
  ELSE stored

\* reconstructItems: the rows and the counter after the first n actions
RECURSIVE reconstructUpTo(_, _, _)
reconstructUpTo(actions, n, c0) ==
  IF n = 0 THEN [items |-> << >>, counter |-> c0]
  ELSE
    LET prev == reconstructUpTo(actions, n - 1, c0)
        action == actions[n]
        c == prev.counter
    IN  IF action.type = "welcome" THEN
          [items |-> prev.items \o
                     << MessageItem(c + 1, c + 2, "system", WELCOME_MESSAGE),
                        OptionsItem(c + 3, MAIN_OPTIONS) >>,
           counter |-> c + 3]
        ELSE IF action.type = "select" THEN
          LET base == withoutInteractive(prev.items) \o
                      << MessageItem(c + 1, c + 2, "user", action.label),
                         MessageItem(c + 3, c + 4, "system", getResponse(action.section)) >>
          IN  IF action.section = "contact"
              THEN [items |-> base \o << ContactBtnItem(c + 5),
                                         OptionsItem(c + 6, FOLLOW_UP_OPTIONS) >>,
                    counter |-> c + 6]
              ELSE [items |-> base \o << OptionsItem(c + 5, FOLLOW_UP_OPTIONS) >>,
                    counter |-> c + 5]
        ELSE prev

\* variant: reconstructItems without its contact branch
reconstructItemsNoButton(actions, c0) ==
  LET rec == reconstructUpTo(actions, Len(actions), c0)
  IN  [rec EXCEPT !.items = SelectSeq(@, LAMBDA row : row.kind # "contact-btn")]

\* variant: reconstructItems filling an array that outlives the call, so that a
\* run after the first returns the earlier rows as well
reconstructItemsShared(actions, c0) ==
  LET rec == reconstructUpTo(actions, Len(actions), c0)
  IN  IF c0 = 0 THEN rec
      ELSE [rec EXCEPT !.items = reconstructUpTo(actions, Len(actions), 0).items \o @]

reconstructItems(actions, c0) == reconstructUpTo(actions, Len(actions), c0)

-----------------------------------------------------------------------------
(* Typing engine and transcript *)

\* typeMessage up to its first setTimeout
typeMessage(r, text, done) ==
  LET typingKey == r.messageCounter + 1 IN
  [r EXCEPT !.isTyping = TRUE,
            !.skipTypingRef = FALSE,
            !.messageCounter = typingKey,
            !.items = Append(@, TypingItem(typingKey, text)),
            !.timers = Append(@, TickTimer(typingKey, 0, text, done)),
            !.calls = [k \in DOMAIN @ \cup {typingKey} |->
                         IF k = typingKey THEN [text |-> text, done |-> 0, got |-> ""]
                         ELSE @[k]]]

finalizeTyping(r, fullText, section) ==
  LET msgId == r.messageCounter + 1
      withoutTyping == SelectSeq(r.items, notTyping)
      newMessage == MessageItem(msgId, msgId, "system",
                                IF section # NULL THEN getResponse(section) ELSE fullText)
  IN  IF section = "contact" THEN
        [r EXCEPT !.messageCounter = msgId + 2,
                  !.items = withoutTyping \o
                            << newMessage, ContactBtnItem(msgId + 1),
                               OptionsItem(msgId + 2, FOLLOW_UP_OPTIONS) >>]
      ELSE IF section # NULL THEN
        [r EXCEPT !.messageCounter = msgId + 1,
                  !.items = withoutTyping \o
                            << newMessage, OptionsItem(msgId + 1, FOLLOW_UP_OPTIONS) >>]
      ELSE
        [r EXCEPT !.messageCounter = msgId + 1,
                  !.items = withoutTyping \o
                            << newMessage, OptionsItem(msgId + 1, MAIN_OPTIONS) >>]

setSessionActions(r, actions) == [r EXCEPT !.sessionActions = actions, !.saSet = TRUE]

\* the four onDone closures handed to typeMessage

\* variant: the welcome closure without its setSessionActions
onDoneWelcomeUnseeded(r, full) == finalizeTyping(r, full, NULL)

onDoneWelcome(r, full) ==
  setSessionActions(finalizeTyping(r, full, NULL), << WelcomeAction >>)

onDoneRestore(r) ==
  [r EXCEPT !.items = IF r.reconstructedRef.set THEN r.reconstructedRef.items ELSE << >>]

onDoneReply(r, section, label) ==
  LET f == finalizeTyping(r, "", section)
  IN  setSessionActions(f, Append(f.sessionActions, SelectAction(section, label)))

\* variant: the popup closure acknowledging with the reveal's own text
onDonePopupEcho(r, label) ==
  LET mid == r.messageCounter + 1 IN
  [r EXCEPT !.messageCounter = mid,
            !.items = Append(withoutInteractive(@),
                             MessageItem(mid, mid, "system", "Opening " \o label \o "..."))]

onDonePopup(r, label) ==
  LET mid == r.messageCounter + 1 IN
  [r EXCEPT !.messageCounter = mid,
            !.items = Append(withoutInteractive(@),
                             MessageItem(mid, mid, "system", "(Opened " \o label \o ")"))]

onDone(r, done, text) ==
  CASE done.tag = "welcome" -> onDoneWelcome(r, text)
    [] done.tag \in {"bootRestore", "reopenRestore"} -> onDoneRestore(r)
    [] done.tag = "reply" -> onDoneReply(r, done.section, done.label)
    [] done.tag = "popup" -> onDonePopup(r, done.label)

\* history only: onDone of the call with this key was invoked with this text
noteDone(r, key, text) ==
  [r EXCEPT !.calls = [k \in DOMAIN @ |->
                         IF k = key THEN [@[k] EXCEPT !.done = @ + 1, !.got = text]
                         ELSE @[k]]]

setDisplayed(rows, typingKey, n) ==
  [i \in DOMAIN rows |->
     IF rows[i].kind = "typing" /\ rows[i].key = typingKey
     THEN [rows[i] EXCEPT !.displayed = n]
     ELSE rows[i]]

\* variant: tick without the return after a skip, so the chain goes on
tickWithoutReturn(r, t) ==
  IF r.skipTypingRef THEN
    LET d == onDone(noteDone([r EXCEPT !.items = setDisplayed(@, t.key, Chars(t.text)),
                                       !.isTyping = FALSE], t.key, t.text),
                    t.done, t.text)
    IN  [d EXCEPT !.timers = Append(@, TickTimer(t.key, t.idx, t.text, t.done))]
  ELSE
    LET idx == t.idx + 1
        shown == [r EXCEPT !.items = setDisplayed(@, t.key, idx)]
    IN  IF idx < Chars(t.text)
        THEN [shown EXCEPT !.timers = Append(@, TickTimer(t.key, idx, t.text, t.done))]
        ELSE onDone(noteDone([shown EXCEPT !.isTyping = FALSE], t.key, t.text),
                    t.done, t.text)

\* variant: tick without idx++, so an unskipped chain shows nothing more and goes on
tickWithoutCount(r, t) ==
  IF r.skipTypingRef THEN
    onDone(noteDone([r EXCEPT !.items = setDisplayed(@, t.key, Chars(t.text)),
                              !.isTyping = FALSE], t.key, t.text),
           t.done, t.text)
  ELSE
    LET idx == t.idx
        shown == [r EXCEPT !.items = setDisplayed(@, t.key, idx)]
    IN  IF idx < Chars(t.text)
        THEN [shown EXCEPT !.timers = Append(@, TickTimer(t.key, idx, t.text, t.done))]
        ELSE onDone(noteDone([shown EXCEPT !.isTyping = FALSE], t.key, t.text),
                    t.done, t.text)

\* one run of tick for the call that captured t.key, t.text, t.idx and t.done
tick(r, t) ==
  IF r.skipTypingRef THEN
    onDone(noteDone([r EXCEPT !.items = setDisplayed(@, t.key, Chars(t.text)),
                              !.isTyping = FALSE], t.key, t.text),
           t.done, t.text)
  ELSE
    LET idx == t.idx + 1
        shown == [r EXCEPT !.items = setDisplayed(@, t.key, idx)]
    IN  IF idx < Chars(t.text)
        THEN [shown EXCEPT !.timers = Append(@, TickTimer(t.key, idx, t.text, t.done))]
        ELSE onDone(noteDone([shown EXCEPT !.isTyping = FALSE], t.key, t.text),
                    t.done, t.text)

-----------------------------------------------------------------------------
(* Effects: what React runs after a render whose dependencies changed.      *)
(* p is the state of the previous render, r the state being committed.     *)

removeBootTimers(ts) == SelectSeq(ts, LAMBDA t : ~IsBootTimer(t))

\* cleanup of the boot effect: clearTimeout(t)
bootCleanup(p, r) ==
  IF p.hasLoaded # r.hasLoaded \/ Len(p.items) # Len(r.items)
     \/ Len(p.sessionActions) # Len(r.sessionActions)
  THEN [r EXCEPT !.timers = removeBootTimers(@)]
  ELSE r

\* variant: the save effect without its test for a non-empty log
saveEffectEmptyToo(p, r, s) ==
  IF (r.saSet \/ p.hasLoaded # r.hasLoaded) /\ r.hasLoaded
  THEN saveSession(s, r.sessionActions)
  ELSE s

\* useEffect [sessionActions, hasLoaded]
saveEffect(p, r, s) ==
  IF (r.saSet \/ p.hasLoaded # r.hasLoaded) /\ r.hasLoaded /\ Len(r.sessionActions) > 0
  THEN saveSession(s, r.sessionActions)
  ELSE s

\* useEffect [isOpen, isMaximized, hasLoaded]
windowEffect(p, r, s) ==
  IF (p.isOpen # r.isOpen \/ p.isMaximized # r.isMaximized \/ p.hasLoaded # r.hasLoaded)
     /\ r.hasLoaded
  THEN saveWindowState(s, [isOpen |-> r.isOpen, isMaximized |-> r.isMaximized])
  ELSE s

\* variant: the boot effect without its saved-session branch
bootEffectWelcomeOnly(p, r, s) ==
  IF (p.hasLoaded # r.hasLoaded \/ Len(p.items) # Len(r.items)
      \/ Len(p.sessionActions) # Len(r.sessionActions))
     /\ r.hasLoaded /\ Len(r.items) = 0
  THEN [s EXCEPT !.timers = Append(@, BootWelcomeTimer)]
  ELSE s

\* useEffect [hasLoaded, items.length, sessionActions.length, ...]: the boot effect
bootEffect(p, r, s) ==
  IF (p.hasLoaded # r.hasLoaded \/ Len(p.items) # Len(r.items)
      \/ Len(p.sessionActions) # Len(r.sessionActions))
     /\ r.hasLoaded /\ Len(r.items) = 0
  THEN IF Len(r.sessionActions) > 0 /\ r.reconstructedRef.set
       THEN [s EXCEPT !.timers = Append(@, BootRestoreTimer)]
       ELSE [s EXCEPT !.timers = Append(@, BootWelcomeTimer)]
  ELSE s

\* useEffect [isOpen, hasLoaded, typeMessage]: the reopen effect
reopenEffect(p, r, s) ==
  IF (p.isOpen # r.isOpen \/ p.hasLoaded # r.hasLoaded)
     /\ r.hasLoaded /\ r.isOpen /\ r.reconstructedRef.set
  THEN typeMessage([s EXCEPT !.items = << >>], RESTORING, Done("reopenRestore", "", ""))
  ELSE s

\* useCallback [isTyping, typeMessage, finalizeTyping, navPath]: handleSelect is
\* rebuilt, and captures the lastOpenedFileId of that render, only when these change
memoHandleSelect(p, r, s) ==
  IF p.isTyping # r.isTyping \/ p.navPath # r.navPath
  THEN [s EXCEPT !.hsLastOpened = r.lastOpenedFileId]
  ELSE s

\* one commit: cleanups first, then the effects in the order they are declared
runEffects(p, r) ==
  LET c == bootCleanup(p, r)
      e1 == saveEffect(p, r, c)
      e2 == windowEffect(p, r, e1)
      e3 == bootEffect(p, r, e2)
      e4 == reopenEffect(p, r, e3)
      e5 == memoHandleSelect(p, r, e4)
  IN  [e5 EXCEPT !.saSet = FALSE]

\* render and commit until no effect changes state (three commits always suffice)
settle(p, r) ==
  LET r1 == runEffects(p, r)
      r2 == runEffects(r, r1)
      r3 == runEffects(r1, r2)
  IN  r3

-----------------------------------------------------------------------------
(* Mount *)

\* the mount effect (useEffect []), run on the first commit
mountEffect(r) ==
  LET actions == loadSession(r.stSession)
      a == IF truthy(actions)
           THEN LET rec == reconstructItems(actions.log, r.messageCounter)
                IN  [r EXCEPT !.sessionActions = actions.log,
                              !.saSet = TRUE,
                              !.reconstructedRef = [set |-> TRUE, items |-> rec.items],
                              !.messageCounter = rec.counter]
           ELSE r
      win == loadWindowState(r.stWindow)
      b == IF win.kind = "object"
           THEN [a EXCEPT !.isOpen = win.isOpen, !.isMaximized = win.isMaximized]
           ELSE a
  IN  [b EXCEPT !.hasLoaded = TRUE, !.phase = "running"]

\* actions.forEach is not a function when the parsed value is no array: the effect
\* throws, and React unmounts the tree
mountThrows(r) ==
  LET actions == loadSession(r.stSession)
  IN  truthy(actions) /\ actions.kind # "list"

Mount ==
  /\ phase = "constructed"
  /\ IF mountThrows(Cur)
     THEN Commit([Cur EXCEPT !.phase = "crashed"], "none")
     ELSE Commit(settle(Cur, mountEffect(Cur)), "none")

-----------------------------------------------------------------------------
(* Timers *)

\* Timer i may run next unless a timer set before it with a delay no longer than
\* its own is still pending (that one is due earlier).
mayFire(i) ==
  /\ i \in DOMAIN timers
  /\ \A j \in 1 .. (i - 1) : timers[j].delay > timers[i].delay

removeAt(ts, i) == SubSeq(ts, 1, i - 1) \o SubSeq(ts, i + 1, Len(ts))

\* the boot effect's two callbacks
bootRestore(r) ==
  typeMessage([r EXCEPT !.items = << >>], RESTORING, Done("bootRestore", "", ""))

bootWelcome(r) == typeMessage(r, WELCOME_MESSAGE, Done("welcome", "", ""))

\* handleSelect's legacy callback, 200 ms after the click
replyCallback(r, t) ==
  typeMessage(r, typingTexts(t.done.section), t.done)

\* variant: the Back entry pushed at the end instead of unshifted
optionsForBackLast(key, hidden) ==
  LET shownEntries == SelectSeq(NavEntries(key), LAMBDA e : e.id # hidden)
      opts == [i \in DOMAIN shownEntries |-> Opt(shownEntries[i].label, shownEntries[i].id)]
  IN  IF key # "root" THEN opts \o << Opt(".. Back", "__back") >> ELSE opts

optionsFor(key, hidden) ==
  LET shownEntries == SelectSeq(NavEntries(key), LAMBDA e : e.id # hidden)
      opts == [i \in DOMAIN shownEntries |-> Opt(shownEntries[i].label, shownEntries[i].id)]
  IN  IF key # "root" THEN << Opt(".. Back", "__back") >> \o opts ELSE opts

\* variant: the callback keying its menu with the counter's current value
showCallbackStaleKey(r, t) ==
  [r EXCEPT !.items = Append(withoutInteractive(@),
                             OptionsItem(r.messageCounter, optionsFor(t.newKey, t.lof)))]

\* pushUserAndShow's callback, 200 ms after a folder was selected
showCallback(r, t) ==
  LET k == r.messageCounter + 1 IN
  [r EXCEPT !.messageCounter = k,
            !.items = Append(withoutInteractive(@), OptionsItem(k, optionsFor(t.newKey, t.lof)))]

resolves(r, t) == t.kind = "tick" /\ (r.skipTypingRef \/ t.idx + 1 >= Chars(t.text))

TickFires(i) ==
  /\ phase = "running"
  /\ mayFire(i)
  /\ timers[i].kind = "tick"
  /\ LET t == timers[i]
         r == [Cur EXCEPT !.timers = removeAt(@, i)]
     IN  Commit(settle(Cur, tick(r, t)),
                IF resolves(Cur, t) THEN t.done.tag ELSE "none")

BootTimerFires(i) ==
  /\ phase = "running"
  /\ mayFire(i)
  /\ IsBootTimer(timers[i])
  /\ LET t == timers[i]
         r == [Cur EXCEPT !.timers = removeAt(@, i)]
     IN  Commit(settle(Cur, IF t.kind = "bootRestore" THEN bootRestore(r) ELSE bootWelcome(r)),
                "none")

ReplyTimerFires(i) ==
  /\ phase = "running"
  /\ mayFire(i)
  /\ timers[i].kind = "reply"
  /\ LET r == [Cur EXCEPT !.timers = removeAt(@, i)]
     IN  Commit(settle(Cur, replyCallback(r, timers[i])), "none")

ShowTimerFires(i) ==
  /\ phase = "running"
  /\ mayFire(i)
  /\ timers[i].kind = "show"
  /\ LET r == [Cur EXCEPT !.timers = removeAt(@, i)]
     IN  Commit(settle(Cur, showCallback(r, timers[i])), "folder")

-----------------------------------------------------------------------------
(* handleSelect *)

\* let resolvedTarget = targetKey; if (section && ROOT_MAP[section]) ...
resolvedTarget(section) == IF section \in DOMAIN ROOT_MAP THEN ROOT_MAP[section] ELSE section

\* entries.find(e => e.id === section || e.label === label): its index, 0 when none
findMatch(entries, section, label) ==
  LET hits == { i \in DOMAIN entries : entries[i].id = section \/ entries[i].label = label }
  IN  IF hits = {} THEN 0 ELSE CHOOSE i \in hits : \A j \in hits : i <= j

\* variant: the Back branch listing the registry's root entries at root
selectBackRawRoot(r) ==
  LET p == r.navPath IN
  IF Len(p) <= 1 THEN r
  ELSE
    LET next == SubSeq(p, 1, Len(p) - 1)
        key == currentNavKey(next)
        k == r.messageCounter + 1
    IN  [r EXCEPT !.navPath = next,
                  !.messageCounter = k,
                  !.items = Append(withoutInteractive(@),
                                   OptionsItem(k, optionsFor(key, r.hsLastOpened)))]

\* variant: the Back branch without its p.length <= 1 test
selectBackUnguarded(r) ==
  LET p == r.navPath
      next == SubSeq(p, 1, Len(p) - 1)
      key == currentNavKey(next)
      k == r.messageCounter + 1
      options == IF key = "root" THEN MAIN_OPTIONS ELSE optionsFor(key, r.hsLastOpened)
  IN  [r EXCEPT !.navPath = next,
                !.messageCounter = k,
                !.items = Append(withoutInteractive(@), OptionsItem(k, options))]

\* the Back branch: the updater handed to setNavPath
selectBack(r) ==
  LET p == r.navPath IN
  IF Len(p) <= 1 THEN r
  ELSE
    LET next == SubSeq(p, 1, Len(p) - 1)
        key == currentNavKey(next)
        k == r.messageCounter + 1
        options == IF key = "root" THEN MAIN_OPTIONS ELSE optionsFor(key, r.hsLastOpened)
    IN  [r EXCEPT !.navPath = next,
                  !.messageCounter = k,
                  !.items = Append(withoutInteractive(@), OptionsItem(k, options))]

\* pushUserAndShow(label, cb) after setLastOpenedFileId(null) and setNavPath(push):
\* cb captures newKey and the lastOpenedFileId of handleSelect's closure
selectFolder(r, pushed, newKey, label) ==
  LET userMsgId == r.messageCounter + 1 IN
  [r EXCEPT !.lastOpenedFileId = NULL,
            !.navPath = Append(@, pushed),
            !.messageCounter = userMsgId,
            !.items = Append(withoutInteractive(@),
                             MessageItem(userMsgId, userMsgId, "user", label)),
            !.timers = Append(@, ShowTimer(newKey, r.hsLastOpened))]

\* variant: the file branch pushing the Back entry instead of unshifting it
selectFileBackLast(r, key, match) ==
  LET msgId == r.messageCounter + 1
      opts == optionsFor(key, match.id)
  IN  [r EXCEPT !.lastOpenedFileId = match.id,
                !.messageCounter = msgId + 1,
                !.items = withoutInteractive(@) \o
                          << MessageItem(msgId, msgId, "system", match.content),
                             OptionsItem(msgId + 1,
                                         IF key # "root" THEN Tail(opts) \o << opts[1] >>
                                         ELSE opts) >>]

selectFile(r, key, match) ==
  LET msgId == r.messageCounter + 1 IN
  [r EXCEPT !.lastOpenedFileId = match.id,
            !.messageCounter = msgId + 1,
            !.items = withoutInteractive(@) \o
                      << MessageItem(msgId, msgId, "system", match.content),
                         OptionsItem(msgId + 1, optionsFor(key, match.id)) >>]

\* window.goatcounter?.count({ path }): no call when the global is absent
count(r, path) ==
  IF r.goatcounter = "absent" THEN r ELSE [r EXCEPT !.tracked = Append(@, path)]

\* window.goatcounter?.count(...) and window.formbricks?.track(...): no state of the
\* component is touched
handleContactOpen(r) == count(r, "nav-contact-form")

selectPopup(r, match) ==
  typeMessage(r, "Opening " \o match.label \o "...", Done("popup", "", match.label))

\* variant: the fallback recording the decision at the click
selectLegacyLogsAtClick(r, section, label) ==
  LET userMsgId == r.messageCounter + 1 IN
  [r EXCEPT !.messageCounter = userMsgId,
            !.items = Append(withoutInteractive(@),
                             MessageItem(userMsgId, userMsgId, "user", label)),
            !.timers = Append(@, ReplyTimer(section, label)),
            !.sessionActions = Append(@, SelectAction(section, label)),
            !.saSet = TRUE]

\* the fallback for the legacy labels
selectLegacy(r, section, label) ==
  LET userMsgId == r.messageCounter + 1 IN
  [r EXCEPT !.messageCounter = userMsgId,
            !.items = Append(withoutInteractive(@),
                             MessageItem(userMsgId, userMsgId, "user", label)),
            !.timers = Append(@, ReplyTimer(section, label))]

\* history only: handleSelect reaches the file branch for this option
opensFile(r, section, label) ==
  LET entries == NavEntries(currentNavKey(r.navPath))
      m == findMatch(entries, section, label)
  IN  /\ ~r.isTyping
      /\ r.goatcounter # "throws"
      /\ section # "__back"
      /\ resolvedTarget(section) \notin NavKeys
      /\ m # 0
      /\ entries[m].type = "file"

handleSelect(r0, section, label) ==
  LET r == count(r0, "nav-" \o section) IN
  IF r0.isTyping THEN r0
  ELSE IF r.goatcounter = "throws" THEN r     \* count() throws: the handler ends here
  ELSE IF section = "__back" THEN selectBack(r)
  ELSE IF resolvedTarget(section) \in NavKeys
       THEN selectFolder(r, resolvedTarget(section), resolvedTarget(section), label)
  ELSE
    LET key == currentNavKey(r.navPath)
        entries == NavEntries(key)
        m == findMatch(entries, section, label)
    IN  IF m # 0 /\ entries[m].type = "folder"
          THEN selectFolder(r, entries[m].id,
                            IF key = "root" THEN entries[m].id ELSE key \o "/" \o entries[m].id,
                            label)
        ELSE IF m # 0 /\ entries[m].type = "file" THEN selectFile(r, key, entries[m])
        ELSE IF m # 0 /\ entries[m].type = "exec" THEN handleContactOpen(r)
        ELSE IF m # 0 /\ entries[m].type = "popup" THEN selectPopup(r, entries[m])
        ELSE selectLegacy(r, section, label)

-----------------------------------------------------------------------------
(* User input *)

\* variant: handleSkip without its isTyping test
handleSkipUnguarded(r) == [r EXCEPT !.skipTypingRef = TRUE]

\* the option lists of the menus on show, top to bottom
menus(rows) ==
  LET o == SelectSeq(rows, LAMBDA i : i.kind = "options")
  IN  [k \in DOMAIN o |-> o[k].options]

\* handleSkip, the window listener for click and keydown
handleSkip(r) == IF r.isTyping THEN [r EXCEPT !.skipTypingRef = TRUE] ELSE r

\* A click reaches the button's handler first and the window listener after it.
\* When the click itself started a reveal, whether the listener that runs is the
\* one registered before or after the re-render depends on how the root flushes
\* effects: both outcomes are kept.
clickSkips(p, r) ==
  IF ~r.isTyping THEN {r.skipTypingRef}
  ELSE IF DOMAIN r.calls = DOMAIN p.calls THEN {TRUE}
  ELSE {TRUE, FALSE}

NoBefore == [set |-> FALSE, path |-> << >>, menus |-> << >>]

\* history only: an input that is no navigation step ends the navigation so far
forget(r, what) ==
  IF what \in {"enter", "file", "back"} THEN r
  ELSE [r EXCEPT !.before = NoBefore, !.scenarioD = 0]

Click(r, what) ==
  /\ inputs < MaxInputs
  /\ \E sk \in clickSkips(Cur, r) :
       Commit([forget(r, what) EXCEPT !.skipTypingRef = sk, !.inputs = @ + 1,
                                      !.skipped = @ \cup pendingKeys(timers)], what)

\* a key press, or a click outside every button
Skip ==
  /\ phase = "running"
  /\ inputs < MaxInputs
  /\ Commit([forget(handleSkip(Cur), "none") EXCEPT
                 !.inputs = @ + 1, !.skipped = @ \cup pendingKeys(timers)],
            IF pendingKeys(timers) = {} THEN "idleSkip" ELSE "none")

\* a click on option j of the options row i
Select(i, j) ==
  /\ phase = "running"
  /\ isOpen
  /\ i \in DOMAIN items
  /\ items[i].kind = "options"
  /\ j \in DOMAIN items[i].options
  /\ LET o == items[i].options[j]
         r == handleSelect(Cur, o.section, o.label)
         accepted == ~isTyping /\ goatcounter # "throws"
         what == IF opensFile(Cur, o.section, o.label) THEN "file"
                 ELSE IF accepted /\ o.section = "__back" THEN "back"
                 ELSE IF Len(r.navPath) > Len(navPath) THEN "enter"
                 ELSE "none"
         step == IF what = "enter" /\ o.section = "experience"
                    /\ menus(items) = << MAIN_OPTIONS >> /\ navPath = << "~" >> THEN 1
                 ELSE IF what = "enter" /\ o.section = "TechCorp" /\ scenarioD = 1 THEN 2
                 ELSE IF what = "back" /\ scenarioD \in {2, 3} THEN scenarioD + 1
                 ELSE 0
         h == [r EXCEPT !.scenarioD = step,
                        !.before = IF what = "enter"
                                   THEN [set |-> TRUE, path |-> navPath, menus |-> menus(items)]
                                   ELSE NoBefore]
     IN  Click(settle(Cur, h), what)

\* a click on the contact button of a contact-btn row
ContactOpen ==
  /\ phase = "running"
  /\ isOpen
  /\ \E i \in DOMAIN items : items[i].kind = "contact-btn"
  /\ Click(settle(Cur, handleContactOpen(Cur)), "none")

closeWindow(r) ==
  IF r.isMaximized
  THEN [r EXCEPT !.isOpen = FALSE]
  ELSE [r EXCEPT !.isOpen = FALSE, !.items = << >>]

Close ==
  /\ phase = "running"
  /\ isOpen
  /\ Click(settle(Cur, closeWindow(Cur)), "none")

Open ==
  /\ phase = "running"
  /\ ~isOpen
  /\ Click(settle(Cur, [Cur EXCEPT !.isOpen = TRUE]), "none")

\* the Maximize and the Restore button
ToggleMaximize ==
  /\ phase = "running"
  /\ isOpen
  /\ Click(settle(Cur, [Cur EXCEPT !.isMaximized = ~@]), "none")

-----------------------------------------------------------------------------
(* Specification *)

\* what sessionStorage may hold when the page loads
StoredSessions ==
  { [kind |-> "absent", log |-> << >>],
    [kind |-> "notjson", log |-> << >>],
    [kind |-> "falsy", log |-> << >>],
    [kind |-> "scalar", log |-> << >>],
    [kind |-> "object", log |-> << >>],
    JSONstringify(<< WelcomeAction >>),
    JSONstringify(<< WelcomeAction, SelectAction("about", "About Me") >>),
    JSONstringify(<< WelcomeAction, SelectAction("contact", "Contact") >>) }

StoredWindows ==
  { [kind |-> "absent", isOpen |-> FALSE, isMaximized |-> FALSE],
    [kind |-> "object", isOpen |-> FALSE, isMaximized |-> FALSE],
    [kind |-> "object", isOpen |-> TRUE, isMaximized |-> TRUE] }

Init ==
  /\ items = << >>
  /\ isTyping = FALSE
  /\ hasLoaded = FALSE
  /\ sessionActions = << >>
  /\ reconstructedRef = [set |-> FALSE, items |-> << >>]
  /\ isOpen = TRUE
  /\ isMaximized = FALSE
  /\ navPath = << "~" >>
  /\ lastOpenedFileId = NULL
  /\ skipTypingRef = FALSE
  /\ messageCounter = 0
  /\ timers = << >>
  /\ stSession \in StoredSessions
  /\ stWindow \in StoredWindows
  /\ hsLastOpened = NULL
  /\ phase = "constructed"
  /\ quota = FALSE
  /\ goatcounter = "ok"
  /\ inputs = 0
  /\ calls = [k \in {} |-> 0]
  /\ resolved = "none"
  /\ reloaded = FALSE
  /\ skipped = {}
  /\ before = NoBefore
  /\ scenarioD = 0
  /\ tracked = << >>

Next ==
  \/ Mount
  \/ \E i \in DOMAIN timers : TickFires(i)
  \/ \E i \in DOMAIN timers : BootTimerFires(i)
  \/ \E i \in DOMAIN timers : ReplyTimerFires(i)
  \/ \E i \in DOMAIN timers : ShowTimerFires(i)
  \/ Skip
  \/ \E i \in DOMAIN items : \E j \in 1 .. 6 : Select(i, j)
  \/ ContactOpen
  \/ Close
  \/ Open
  \/ ToggleMaximize

Spec == Init /\ [][Next]_vars

\* A reload of the page: the module and the component start anew, sessionStorage
\* is kept.
Reload ==
  /\ phase # "constructed"
  /\ items' = << >>
  /\ isTyping' = FALSE
  /\ hasLoaded' = FALSE
  /\ sessionActions' = << >>
  /\ reconstructedRef' = [set |-> FALSE, items |-> << >>]
  /\ isOpen' = TRUE
  /\ isMaximized' = FALSE
  /\ navPath' = << "~" >>
  /\ lastOpenedFileId' = NULL
  /\ skipTypingRef' = FALSE
  /\ messageCounter' = 0
  /\ timers' = << >>
  /\ hsLastOpened' = NULL
  /\ phase' = "constructed"
  /\ calls' = [k \in {} |-> 0]
  /\ resolved' = "none"
  /\ reloaded' = TRUE
  /\ skipped' = {}
  /\ before' = NoBefore
  /\ scenarioD' = 0
  /\ tracked' = << >>
  /\ UNCHANGED << stSession, stWindow, quota, goatcounter, inputs >>

\* The page in a browser whose sessionStorage.setItem always throws: storage holds
\* no log, and the page may be reloaded.
InitQuota ==
  /\ items = << >>
  /\ isTyping = FALSE
  /\ hasLoaded = FALSE
  /\ sessionActions = << >>
  /\ reconstructedRef = [set |-> FALSE, items |-> << >>]
  /\ isOpen = TRUE
  /\ isMaximized = FALSE
  /\ navPath = << "~" >>
  /\ lastOpenedFileId = NULL
  /\ skipTypingRef = FALSE
  /\ messageCounter = 0
  /\ timers = << >>
  /\ stSession = [kind |-> "absent", log |-> << >>]
  /\ stWindow \in StoredWindows
  /\ hsLastOpened = NULL
  /\ phase = "constructed"
  /\ quota = TRUE
  /\ goatcounter = "ok"
  /\ inputs = 0
  /\ calls = [k \in {} |-> 0]
  /\ resolved = "none"
  /\ reloaded = FALSE
  /\ skipped = {}
  /\ before = NoBefore
  /\ scenarioD = 0
  /\ tracked = << >>

\* handleSelect('__back', ...) called whatever menu is on show: the handler on its
\* own, as a caller other than the current menu's Back button would reach it
BackActivation ==
  /\ phase = "running"
  /\ isOpen
  /\ Click(settle(Cur, [handleSelect(Cur, "__back", ".. Back") EXCEPT
                          !.before = NoBefore, !.scenarioD = 0]),
           IF Len(navPath) = 1 THEN "backAtRoot" ELSE "back")

NextBack == Next \/ BackActivation

SpecBack == Init /\ [][NextBack]_vars

NextQuota == Next \/ Reload

\* The page in a browser where window.goatcounter is present, absent (blocked), or
\* present with a count() that throws
InitAnalytics ==
  /\ items = << >>
  /\ isTyping = FALSE
  /\ hasLoaded = FALSE
  /\ sessionActions = << >>
  /\ reconstructedRef = [set |-> FALSE, items |-> << >>]
  /\ isOpen = TRUE
  /\ isMaximized = FALSE
  /\ navPath = << "~" >>
  /\ lastOpenedFileId = NULL
  /\ skipTypingRef = FALSE
  /\ messageCounter = 0
  /\ timers = << >>
  /\ stSession \in { [kind |-> "absent", log |-> << >>],
                     JSONstringify(<< WelcomeAction, SelectAction("contact", "Contact") >>) }
  /\ stWindow = [kind |-> "absent", isOpen |-> FALSE, isMaximized |-> FALSE]
  /\ hsLastOpened = NULL
  /\ phase = "constructed"
  /\ quota = FALSE
  /\ goatcounter \in {"ok", "absent", "throws"}
  /\ inputs = 0
  /\ calls = [k \in {} |-> 0]
  /\ resolved = "none"
  /\ reloaded = FALSE
  /\ skipped = {}
  /\ before = NoBefore
  /\ scenarioD = 0
  /\ tracked = << >>

SpecAnalytics == InitAnalytics /\ [][Next]_vars

\* the decision logs [Welcome, Select s1, ..., Select sn] over the root menu's
\* options, n up to the cap
ReplayLogs ==
  { << WelcomeAction >> \o
      [i \in 1 .. n |-> SelectAction(MAIN_OPTIONS[f[i]].section, MAIN_OPTIONS[f[i]].label)] :
      n \in 0 .. MaxSelects, f \in [1 .. MaxSelects -> DOMAIN MAIN_OPTIONS] }

\* The page loading a stored decision log and restoring it, with no user input
InitReplay ==
  /\ items = << >>
  /\ isTyping = FALSE
  /\ hasLoaded = FALSE
  /\ sessionActions = << >>
  /\ reconstructedRef = [set |-> FALSE, items |-> << >>]
  /\ isOpen = TRUE
  /\ isMaximized = FALSE
  /\ navPath = << "~" >>
  /\ lastOpenedFileId = NULL
  /\ skipTypingRef = FALSE
  /\ messageCounter = 0
  /\ timers = << >>
  /\ stSession \in { JSONstringify(log) : log \in ReplayLogs }
  /\ stWindow \in { [kind |-> "absent", isOpen |-> FALSE, isMaximized |-> FALSE],
                    [kind |-> "object", isOpen |-> FALSE, isMaximized |-> FALSE] }
  /\ hsLastOpened = NULL
  /\ phase = "constructed"
  /\ quota = FALSE
  /\ goatcounter = "ok"
  /\ inputs = 0
  /\ calls = [k \in {} |-> 0]
  /\ resolved = "none"
  /\ reloaded = FALSE
  /\ skipped = {}
  /\ before = NoBefore
  /\ scenarioD = 0
  /\ tracked = << >>

NextReplay ==
  \/ Mount
  \/ \E i \in DOMAIN timers : BootTimerFires(i)
  \/ \E i \in DOMAIN timers : TickFires(i)

SpecReplay == InitReplay /\ [][NextReplay]_vars

\* The page with working storage, and reloads
NextReload == Next \/ Reload

SpecReload == Init /\ [][NextReload]_vars

SpecQuota == InitQuota /\ [][NextQuota]_vars

-----------------------------------------------------------------------------
(* Vocabulary of the properties *)

rowsOfKind(rows, kind) == { i \in DOMAIN rows : rows[i].kind = kind }

tickTimers == { i \in DOMAIN timers : timers[i].kind = "tick" }

\* no reveal in flight: the typing flag is down and no tick is scheduled
noReveal == ~isTyping /\ tickTimers = {}

\* nothing in flight at all: no reveal and no pending timer
quiescent == phase = "running" /\ ~isTyping /\ timers = << >>

\* a row without its ids
stripRow(row) ==
  CASE row.kind = "message" -> [kind |-> "message", type |-> row.data.type, content |-> row.data.content]
    [] row.kind = "options" -> [kind |-> "options", options |-> row.options]
    [] row.kind = "typing" -> [kind |-> "typing", text |-> row.text, displayed |-> row.displayed]
    [] OTHER -> [kind |-> row.kind]

stripIds(rows) == [i \in DOMAIN rows |-> stripRow(rows[i])]

\* the transcript that reconstructItems makes of a decision log, without ids
replay(log) == stripIds(reconstructItems(log, 0).items)

\* the page loaded a stored decision list
restoredSession == phase = "running" /\ reconstructedRef.set

\* the log grew by exactly one decision at its end
appendsOne == /\ Len(sessionActions') = Len(sessionActions) + 1
              /\ SubSeq(sessionActions', 1, Len(sessionActions)) = sessionActions

\* the typeMessage calls made so far with this text
callsOf(text) == { k \in DOMAIN calls : calls[k].text = text }

\* the pending ticks of the typeMessage call with this key
ticksOf(k) == { i \in tickTimers : timers[i].key = k }

\* the transcript right after the welcome: the system turn and the root menu
welcomeTranscript ==
  << [kind |-> "message", type |-> "system", content |-> WELCOME_MESSAGE],
     [kind |-> "options", options |-> MAIN_OPTIONS] >>

-----------------------------------------------------------------------------
(* Properties *)

\* C1: in every reachable state the transcript holds at most one option-menu row;
\* two stacked menus never occur.
C1_AtMostOneMenu == Cardinality(rowsOfKind(items, "options")) <= 1

\* C2: once startup has loaded, every change of the decision log appends exactly
\* one decision at its end; nothing is removed, reordered or reset.
C2_LogOnlyAppended ==
  [][(hasLoaded /\ sessionActions' # sessionActions) => appendsOne]_vars

\* C3: in a quiescent state (no reveal in flight, no pending timer) the transcript
\* equals, ignoring row ids, what reconstructItems makes of the decision log.
C3_TranscriptIsReplay == quiescent => stripIds(items) = replay(sessionActions)

\* C4: at most one reveal is in flight: at most one typing row and at most one
\* scheduled tick chain.
C4_OneReveal ==
  /\ Cardinality(rowsOfKind(items, "typing")) <= 1
  /\ Cardinality(tickTimers) <= 1

\* C5: every typeMessage call has its onDone invoked exactly once and with the full
\* text: a call is either still ticking with onDone not yet invoked, or its chain
\* has ended with one invocation that got the text; no tick runs without a call.
C5_OnDoneExactlyOnce ==
  /\ \A k \in DOMAIN calls :
       \/ calls[k].done = 0 /\ Cardinality(ticksOf(k)) = 1
       \/ calls[k].done = 1 /\ ticksOf(k) = {} /\ calls[k].got = calls[k].text
  /\ \A i \in tickTimers : timers[i].key \in DOMAIN calls

\* a reveal has resolved after a skip, and another after its last character
C5_Witness ==
  /\ resolved \in {"welcome", "bootRestore", "reopenRestore", "reply", "popup"}
  /\ skipTypingRef
  /\ \E k \in DOMAIN calls : calls[k].done = 1 /\ calls[k].got = calls[k].text
  /\ Cardinality({ k \in DOMAIN calls : calls[k].done = 1 }) >= 2

\* C6: a resolved reveal's typing row is removed: whenever no reveal is in flight
\* the transcript holds no typing row (welcome, replies, restore, popups).
C6_NoStaleTypingRow == noReveal => rowsOfKind(items, "typing") = {}

\* C7: whatever the stored session record holds (absent, not JSON, JSON that is
\* no list of decisions), startup raises no error.
C7_StartupNeverThrows == phase # "crashed"

\* C8: every accepted choice (root section, folder, file, popup), once handled,
\* has appended exactly one Select decision and the log was written to storage.
C8_ChoiceIsRecorded ==
  [][resolved' \in {"reply", "folder", "file", "popup"} =>
       /\ appendsOne
       /\ sessionActions'[Len(sessionActions')].type = "select"
       /\ stSession' = JSONstringify(sessionActions')]_vars

\* C9: on startup with a stored non-empty decision list L the log becomes L and
\* stays L, the welcome reveal is never started, and the transcript after the
\* restore step is the replay of L (ignoring row ids).
C9_RestoreReplaysLog ==
  [][/\ (phase = "constructed" /\ stSession.kind = "list" /\ Len(stSession.log) > 0)
          => sessionActions' = stSession.log
     /\ (restoredSession /\ Len(sessionActions) > 0)
          => /\ callsOf(WELCOME_MESSAGE)' = {}
             /\ inputs' = 0 =>
                  /\ sessionActions' = sessionActions
                  /\ resolved' \in {"bootRestore", "reopenRestore"}
                       => stripIds(items') = replay(sessionActions')]_vars

\* the restore step of a startup with a stored list has just resolved
C9_Witness ==
  /\ restoredSession
  /\ inputs = 0
  /\ resolved \in {"bootRestore", "reopenRestore"}
  /\ Len(sessionActions) > 1
  /\ stripIds(items) = replay(sessionActions)

\* C10: on startup with no stored decisions no menu exists before the welcome has
\* resolved; when it resolves the whole text was handed over, the transcript is
\* the welcome system turn and the root menu, and the log is [Welcome].
C10_FreshWelcome ==
  (phase = "running" /\ ~reconstructedRef.set) =>
    /\ sessionActions = << >> => rowsOfKind(items, "options") = {}
    /\ resolved = "welcome" =>
         /\ stripIds(items) = welcomeTranscript
         /\ sessionActions = << WelcomeAction >>
         /\ \E k \in callsOf(WELCOME_MESSAGE) :
              calls[k].done = 1 /\ calls[k].got = WELCOME_MESSAGE

\* the welcome of a fresh startup has just resolved, untouched by any input
C10_Witness ==
  /\ phase = "running"
  /\ ~reconstructedRef.set
  /\ inputs = 0
  /\ resolved = "welcome"
  /\ Cardinality(rowsOfKind(items, "options")) = 1

\* C11: when every write to storage throws, no operation fails, a resolved reply
\* still appends its decision to the in-memory log, storage keeps holding no log,
\* and after a reload the welcome plays again and yields the log [Welcome].
C11_QuotaIsHarmless ==
  [][/\ phase' # "crashed"
     /\ stSession' = [kind |-> "absent", log |-> << >>]
     /\ resolved' = "reply" =>
          /\ appendsOne
          /\ sessionActions'[Len(sessionActions')].type = "select"
     /\ resolved' = "welcome" =>
          /\ sessionActions' = << WelcomeAction >>
          /\ stripIds(items') = welcomeTranscript]_vars

\* with failing storage, after user input and a reload of the page, the welcome
\* has resolved again
C11_Witness ==
  /\ quota
  /\ reloaded
  /\ inputs > 0
  /\ resolved = "welcome"
  /\ sessionActions = << WelcomeAction >>
  /\ stSession.kind = "absent"

\* the pending tick callbacks of the typeMessage call with this key
tickRecords(ts, k) == { ts[i] : i \in { j \in DOMAIN ts : ts[j].kind = "tick" /\ ts[j].key = k } }

\* C12: a reveal that was in flight when a click or key press arrived shows no
\* further partial prefix: its next tick ends the chain, onDone getting the text.
C12_SkipResolvesReveal ==
  [][\A k \in skipped :
       (\E t \in tickRecords(timers, k) : t \notin tickRecords(timers', k))
         => /\ tickRecords(timers', k) = {}
            /\ calls'[k].done = 1
            /\ calls'[k].got = calls'[k].text]_vars

\* C13: a key press that arrives when no reveal is in flight changes nothing that
\* can be observed (transcript, log, pending callbacks, onDone calls, skip flag),
\* and a reveal that a timer starts from rest starts unskipped.
C13_IdleSkipIsNoOp ==
  [][/\ (Skip /\ pendingKeys(timers) = {})
          => UNCHANGED << items, sessionActions, timers, calls, isTyping, skipTypingRef,
                          navPath, stSession >>
     /\ (DOMAIN calls' # DOMAIN calls /\ inputs' = inputs /\ pendingKeys(timers) = {})
          => ~skipTypingRef']_vars

\* a key press has just found no reveal to skip, and a reveal is about to start
C13_Witness ==
  /\ resolved = "idleSkip"
  /\ ~skipTypingRef
  /\ \E i \in DOMAIN timers : timers[i].kind \in {"bootWelcome", "bootRestore", "reply"}

\* C14: the path always starts with the root marker '~', and a back activation at
\* root leaves the path, the transcript and the decision log unchanged.
C14_RootIsKept ==
  /\ [](Len(navPath) >= 1 /\ navPath[1] = "~")
  /\ [][(BackActivation /\ Len(navPath) = 1)
          => UNCHANGED << navPath, items, sessionActions >>]_vars

\* back has just been activated at root, with a menu on show
C14_Witness ==
  /\ resolved = "backAtRoot"
  /\ navPath = << "~" >>
  /\ rowsOfKind(items, "options") # {}
  /\ ~isTyping

\* menu m2 is menu m1, or m1 with one more entry listed
sameOrOneMore(m1, m2) ==
  \/ m2 = m1
  \/ \E j \in DOMAIN m2 : removeAt(m2, j) = m1

\* C15: selecting a folder entry and then activating back restores the path of
\* before the select and shows exactly the menu that was on show before it,
\* except that a file hidden as just opened is listed again.
C15_BackUndoesSelect ==
  [][(before.set /\ resolved' = "back")
       => /\ navPath' = before.path
          /\ Len(before.menus) = 1
          /\ Len(menus(items')) = 1
          /\ sameOrOneMore(before.menus[1], menus(items')[1])]_vars

\* the two listings of scenario D, written out
experienceListing ==
  << Opt(".. Back", "__back"), Opt("TechCorp/", "TechCorp"), Opt("StartupX/", "StartupX"),
     Opt("DevHouse/", "DevHouse") >>

techCorpListing ==
  << Opt(".. Back", "__back"), Opt("summary.md", "summary.md"),
     Opt("achievements.md", "achievements.md"),
     Opt("migration-case-study.md", "migration-case-study.md") >>

\* C16: from root, with the root menu on show, selecting Experience sets the path to [~, experience]
\* and shows its listing; selecting TechCorp sets the path to
\* [~, experience, TechCorp] and shows exactly Back, summary.md, achievements.md,
\* migration-case-study.md; two back activations return the path to root and show
\* exactly the root menu.
C16_ScenarioD ==
  [][/\ (scenarioD' = 1 /\ resolved' = "enter") => navPath' = << "~", "experience" >>
     /\ (scenarioD' = 1 /\ resolved' = "folder")
          => menus(items') = << experienceListing >>
     /\ (scenarioD' = 2 /\ resolved' = "enter")
          => navPath' = << "~", "experience", "TechCorp" >>
     /\ (scenarioD' = 2 /\ resolved' = "folder")
          => menus(items') = << techCorpListing >>
     /\ (scenarioD' = 4 /\ resolved' = "back")
          => navPath' = << "~" >> /\ menus(items') = << MAIN_OPTIONS >>]_vars

\* scenario D has been walked to its end
C16_Witness ==
  /\ scenarioD = 4
  /\ resolved = "back"
  /\ navPath = << "~" >>
  /\ menus(items) = << MAIN_OPTIONS >>

\* the menu of a location as the path and the remembered file determine it: the
\* root menu at root, else Back and every entry of the folder but the remembered
menuOf(path, remembered) ==
  IF Len(path) <= 1 THEN MAIN_OPTIONS
  ELSE LET entries == NavEntries(Join(Tail(path)))
           listed == SelectSeq(entries, LAMBDA e : e.id # remembered)
       IN  << Opt(".. Back", "__back") >> \o
           [i \in DOMAIN listed |-> Opt(listed[i].label, listed[i].id)]

\* the menu lowest in the transcript
lastMenu(rows) == menus(rows)[Len(menus(rows))]

\* C17: the menu shown for a location depends only on the path and the remembered
\* last-opened file: every navigation step that shows a menu shows the folder's
\* entries except the remembered file (all of them when nothing is remembered).
C17_MenuIsFunctionOfPath ==
  [][resolved' \in {"folder", "file", "back"}
       => /\ menus(items') # << >>
          /\ lastMenu(items') = menuOf(navPath', lastOpenedFileId')]_vars

\* the registry entries of a folder as options, in declared order
registryOptions(k) == [i \in DOMAIN NAV_TREE[k] |-> Opt(NAV_TREE[k][i].label, NAV_TREE[k][i].id)]

\* list a is list b, or b with one entry left out
sameOrOneLess(a, b) ==
  \/ a = b
  \/ \E j \in DOMAIN b : a = removeAt(b, j)

C19_RootMenuIsFixed ==
  [][(\/ resolved' \in {"welcome", "reply", "bootRestore", "reopenRestore"}
      \/ resolved' = "back" /\ navPath' = << "~" >>)
       => (menus(items') # << >> /\ lastMenu(items') = MAIN_OPTIONS)]_vars

\* Back has just reached root from a folder and the root menu is on show
C19_Witness ==
  /\ resolved = "back"
  /\ navPath = << "~" >>
  /\ lastOpenedFileId # NULL
  /\ lastMenu(items) = MAIN_OPTIONS

\* the files of the folder a path names that a menu does not list
filesNotListed(path, m) ==
  LET entries == NavEntries(currentNavKey(path))
  IN  { entries[i].id : i \in { j \in DOMAIN entries :
          /\ entries[j].type = "file"
          /\ \A a \in DOMAIN m : m[a].section # entries[j].id } }

\* C20: selecting a file appends a system turn with its content, leaves the path
\* unchanged and re-issues the folder's menu without that file; the file is hidden
\* only until the next navigation step: a later menu of the folder leaves out no
\* file but the one opened by the step that issues it.
C20_FileOpen ==
  [][/\ resolved' = "file" =>
          LET key == currentNavKey(navPath)
              hit == { i \in DOMAIN NavEntries(key) :
                         NavEntries(key)[i].id = lastOpenedFileId' }
          IN  /\ navPath' = navPath
              /\ hit # {}
              /\ \A i \in hit :
                   stripIds(items') =
                     stripIds(withoutInteractive(items)) \o
                     << [kind |-> "message", type |-> "system",
                         content |-> NavEntries(key)[i].content],
                        [kind |-> "options", options |-> menuOf(navPath, lastOpenedFileId')] >>
     /\ (/\ resolved' \in {"folder", "file", "back"}
         /\ Len(navPath') > 1 /\ menus(items') # << >>) =>
          \A f \in filesNotListed(navPath', lastMenu(items')) :
            resolved' = "file" /\ lastOpenedFileId' = f]_vars

\* option o of a menu on show is clicked while handleSelect accepts clicks
selects(o) ==
  /\ ~isTyping
  /\ \E i \in DOMAIN items : \E j \in 1 .. 6 : Select(i, j) /\ items[i].options[j] = o

\* the rows a step added: those whose key the counter had not reached before it
addedRows(c, rows) == SelectSeq(rows, LAMBDA row : row.key > c)

\* the entry of the registry root with this id
rootEntry(id) ==
  NAV_TREE["root"][CHOOSE i \in DOMAIN NAV_TREE["root"] : NAV_TREE["root"][i].id = id]

\* C21: at root, selecting About Me opens the file bio.txt (a system turn with its
\* content is added and the file is the one remembered) and selecting Contact runs
\* contact.sh, which invokes the contact action; neither changes the path.
C21_RootMapping ==
  [][/\ (navPath = << "~" >> /\ selects(Opt("About Me", "about")))
          => /\ navPath' = navPath
             /\ lastOpenedFileId' = "bio.txt"
             /\ \E i \in DOMAIN addedRows(messageCounter, items') :
                  stripRow(addedRows(messageCounter, items')[i]) =
                    [kind |-> "message", type |-> "system",
                     content |-> rootEntry("bio.txt").content]
     /\ (navPath = << "~" >> /\ selects(Opt("Contact", "contact")))
          => /\ navPath' = navPath
             /\ \E i \in DOMAIN tracked' : tracked'[i] = "nav-contact-form"]_vars

\* the popup entries of the folder a path names
popupEntries(path) ==
  LET entries == NavEntries(currentNavKey(path))
  IN  { entries[i] : i \in { j \in DOMAIN entries : entries[j].type = "popup" } }

\* this step starts a reveal of this text: a new typeMessage call with a typing row
revealStarts(text) ==
  \E k \in DOMAIN calls' \ DOMAIN calls :
    /\ calls'[k].text = text /\ calls'[k].done = 0
    /\ isTyping'
    /\ \E i \in DOMAIN items' : items'[i] = TypingItem(k, text)
    /\ \E i \in DOMAIN timers' : timers'[i] = TickTimer(k, 0, text, timers'[i].done)

\* C22: selecting a popup entry starts a reveal of 'Opening <label>...' and leaves
\* the path as it is; the step that resolves that reveal appends the system turn
\* '(Opened <label>)' as the last row and leaves the path as it is.
C22_PopupAcknowledged ==
  [][/\ \A e \in popupEntries(navPath) :
          selects(Opt(e.label, e.id))
            => navPath' = navPath /\ revealStarts("Opening " \o e.label \o "...")
     /\ \A i \in DOMAIN timers :
          (timers[i].kind = "tick" /\ timers[i].done.tag = "popup"
           /\ resolved' = "popup" /\ TickFires(i))
            => /\ navPath' = navPath
               /\ items' # << >>
               /\ items'[Len(items')].key > messageCounter
               /\ stripRow(items'[Len(items')]) =
                    [kind |-> "message", type |-> "system",
                     content |-> "(Opened " \o timers[i].done.label \o ")"]]_vars

\* the reveal of a popup of TechCorp has resolved and its acknowledgement is the
\* last row
C22_Witness ==
  /\ resolved = "popup"
  /\ navPath = << "~", "experience", "TechCorp" >>
  /\ \E k \in DOMAIN calls :
       calls[k].text = "Opening migration-case-study.md..." /\ calls[k].done = 1
  /\ items # << >>
  /\ stripRow(items[Len(items)]) =
       [kind |-> "message", type |-> "system", content |-> "(Opened migration-case-study.md)"]

\* handleSelect finds nothing for this option at this path: it is not Back, names
\* no folder of the registry and matches no entry of the current listing
unresolved(path, o) ==
  /\ o.section # "__back"
  /\ resolvedTarget(o.section) \notin NavKeys
  /\ findMatch(NavEntries(currentNavKey(path)), o.section, o.label) = 0

\* C23: selecting an option whose id does not resolve in the current listing does
\* not crash and leaves the path unchanged, and the menu shown when its reply has
\* resolved is the menu of the current location (its listing with or without the
\* remembered file, the root menu at root).
C23_UnresolvedFallsBack ==
  [][/\ \A a \in DOMAIN menus(items) : \A b \in DOMAIN menus(items)[a] :
          (selects(menus(items)[a][b]) /\ unresolved(navPath, menus(items)[a][b]))
            => navPath' = navPath /\ phase' = "running"
     /\ resolved' = "reply"
          => /\ navPath' = navPath
             /\ menus(items') # << >>
             /\ lastMenu(items') \in { menuOf(navPath', NULL),
                                       menuOf(navPath', lastOpenedFileId') }]_vars

\* the window record that holds these flags
windowRecord(open, maximized) ==
  [kind |-> "object", isOpen |-> open, isMaximized |-> maximized]

\* C24: the window flags round-trip through storage independently of the decision
\* log: while the page runs the stored window record holds the current flags, a
\* reload leaves that record as the flags were, the next mount starts with the
\* flags of the record, and a step that writes the window record leaves the
\* stored decision record as it was.
C24_WindowRoundTrip ==
  /\ [](phase = "running" => stWindow = windowRecord(isOpen, isMaximized))
  /\ [][/\ (Reload /\ phase = "running") => stWindow' = windowRecord(isOpen, isMaximized)
        /\ (phase = "constructed" /\ phase' = "running" /\ stWindow.kind = "object")
             => isOpen' = stWindow.isOpen /\ isMaximized' = stWindow.isMaximized
        /\ stWindow' # stWindow => stSession' = stSession]_vars

\* after maximize, close and a reload the page runs closed and maximized, flags no
\* stored record of the first load held
C24_Witness ==
  /\ reloaded
  /\ phase = "running"
  /\ ~isOpen /\ isMaximized
  /\ stWindow = windowRecord(FALSE, TRUE)
  /\ inputs >= 2

\* a row as rendering identifies it: a typing row whatever it displays so far
rowIdentity(row) == IF row.kind = "typing" THEN [row EXCEPT !.displayed = 0] ELSE row

\* the rows that exist: those of the transcript and those kept for a restore
rowsHeld(rows, ref) ==
  { rowIdentity(rows[i]) : i \in DOMAIN rows } \cup { ref.items[i] : i \in DOMAIN ref.items }

\* C25: row keys come from a strictly increasing counter: the rows of the
\* transcript have pairwise distinct keys, no two rows that exist (shown, or kept
\* for a restore) share a key, no key is above the counter, the counter never goes
\* down, and every row a step shows is either a row that existed before it with
\* its key or carries a key the counter had not reached.
C25_RowIdsUnique ==
  /\ [](/\ \A i, j \in DOMAIN items : i # j => items[i].key # items[j].key
        /\ \A x, y \in rowsHeld(items, reconstructedRef) : x.key = y.key => x = y
        /\ \A x \in rowsHeld(items, reconstructedRef) : x.key \in 1 .. messageCounter)
  /\ [][/\ messageCounter' >= messageCounter
        /\ \A x \in rowsHeld(items', reconstructedRef') :
             x.key > messageCounter \/ x \in rowsHeld(items, reconstructedRef)]_vars

\* a reopen has re-created the rows of the stored log after later rows had been
\* keyed
C25_Witness ==
  /\ resolved = "reopenRestore"
  /\ items # << >>
  /\ items = reconstructedRef.items
  /\ inputs >= 3
  /\ \E k \in DOMAIN calls : calls[k].done = 1 /\ calls[k].text # RESTORING
  /\ \A i \in DOMAIN items : items[i].key + 2 < messageCounter

\* what the click on option o makes of the current state when goatcounter works
selectWithAnalytics(o) ==
  settle(Cur, handleSelect([Cur EXCEPT !.goatcounter = "ok"], o.section, o.label))

\* C26: an analytics call that is absent or throws alters nothing: a selection made
\* while no reveal is active leaves the transcript, the path and the decision log
\* as the same selection leaves them when the call succeeds, and a click on the
\* contact button changes none of the three.
C26_AnalyticsIsBestEffort ==
  [][/\ \A a \in DOMAIN menus(items) : \A b \in DOMAIN menus(items)[a] :
          selects(menus(items)[a][b])
            => /\ items' = selectWithAnalytics(menus(items)[a][b]).items
               /\ navPath' = selectWithAnalytics(menus(items)[a][b]).navPath
               /\ sessionActions' = selectWithAnalytics(menus(items)[a][b]).sessionActions
     /\ ContactOpen
          => items' = items /\ navPath' = navPath /\ sessionActions' = sessionActions]_vars

\* the last speaker turn of a transcript, without ids ("none" when there is none)
lastTurn(rows) ==
  LET m == SelectSeq(rows, LAMBDA row : row.kind = "message")
  IN  IF m = << >> THEN [kind |-> "none"] ELSE stripRow(m[Len(m)])

experienceTurn == [kind |-> "message", type |-> "user", content |-> "Experience"]

\* C27: selecting Experience from the root menu appends the user turn
\* 'Experience'; the step that answers it resolves a reveal and appends, in this
\* order, a system turn with the experience content and a menu equal to the root
\* menu.
C27_ScenarioB ==
  [][/\ (navPath = << "~" >> /\ selects(Opt("Experience", "experience")))
          => stripIds(items') = Append(stripIds(withoutInteractive(items)), experienceTurn)
     /\ (resolved' \in {"reply", "folder"} /\ lastTurn(items) = experienceTurn)
          => /\ resolved' = "reply"
             /\ stripIds(items') =
                  stripIds(SelectSeq(items, notTyping)) \o
                  << [kind |-> "message", type |-> "system",
                      content |-> getResponse("experience")],
                     [kind |-> "options", options |-> MAIN_OPTIONS] >>]_vars

\* what a replay is to show for the selections i .. Len(log) of a log: per select
\* its user turn and its reply turn, a contact button after a last contact reply
RECURSIVE selectTurns(_, _)
selectTurns(log, i) ==
  IF i > Len(log) THEN << >>
  ELSE << [kind |-> "message", type |-> "user", content |-> log[i].label],
          [kind |-> "message", type |-> "system", content |-> getResponse(log[i].section)] >>
       \o (IF i = Len(log) /\ log[i].section = "contact"
           THEN << [kind |-> "contact-btn"] >> ELSE << >>)
       \o selectTurns(log, i + 1)

\* the welcome turn, the turns of the selects, and the root menu as the last row
expectedReplay(log) ==
  << [kind |-> "message", type |-> "system", content |-> WELCOME_MESSAGE] >>
  \o selectTurns(log, 2)
  \o << [kind |-> "options", options |-> MAIN_OPTIONS] >>

\* C28: for every stored log [Welcome, Select s1, ..., Select sn] the rows that
\* reconstructItems builds at mount, and the transcript once the restore has
\* resolved, are the welcome turn, then each select's user turn and reply turn,
\* no typing row, a contact button only directly after the reply of a last
\* contact select, and one menu, the last row, equal to the root menu.
C28_ReplayShape ==
  /\ (phase = "running" /\ reconstructedRef.set)
       => stripIds(reconstructedRef.items) = expectedReplay(stSession.log)
  /\ resolved \in {"bootRestore", "reopenRestore"}
       => /\ stripIds(items) = expectedReplay(stSession.log)
          /\ rowsOfKind(items, "typing") = {}
          /\ Cardinality(rowsOfKind(items, "options")) = 1
          /\ items[Len(items)].kind = "options"

\* a log with a contact select in the middle and one at the end has been restored
C28_Witness ==
  /\ resolved = "reopenRestore"
  /\ Len(stSession.log) = 4
  /\ stSession.log[2].section = "contact"
  /\ stSession.log[3].section = "experience"
  /\ stSession.log[4].section = "contact"
  /\ items = reconstructedRef.items
  /\ Cardinality(rowsOfKind(items, "contact-btn")) = 1

interactiveRows(rows) == rowsOfKind(rows, "options") \cup rowsOfKind(rows, "contact-btn")

\* C30: the transcript holds at most one interactive row, option menus and contact
\* buttons counted together, and a step that issues a new interactive row leaves
\* none of the earlier ones.
C30_OneInteractiveRow ==
  /\ [](Cardinality(interactiveRows(items)) <= 1)
  /\ [][(\E i \in interactiveRows(items') : items'[i].key > messageCounter)
          => \A i \in interactiveRows(items') : items'[i].key > messageCounter]_vars

\* C31: after the window is closed and reopened the transcript shows the
\* conversation again, that is the replay of the current decision log: the step
\* that finishes a restore leaves exactly that replay, and a welcome revealed
\* while the log is not empty leaves the replay of that log, not less.
C31_ReopenKeepsConversation ==
  [][/\ resolved' \in {"reopenRestore", "bootRestore"}
          => stripIds(items') = replay(sessionActions')
     /\ resolved' = "welcome"
          => sessionActions = << >> \/ stripIds(items') = replay(sessionActions)]_vars

\* the rows of the transcript other than the typing row
settledRows(rows) == SelectSeq(rows, notTyping)

\* C32: while a reveal is in flight (its ticks are still pending) a click on any
\* option of a menu on show is ignored: the transcript apart from the typing row,
\* the path, the last-opened file and the decision log stay as they were.
C32_SelectIgnoredInReveal ==
  [][\A i \in DOMAIN items : \A j \in 1 .. 6 :
       (tickTimers # {} /\ Select(i, j))
         => /\ settledRows(items') = settledRows(items)
            /\ navPath' = navPath
            /\ lastOpenedFileId' = lastOpenedFileId
            /\ sessionActions' = sessionActions]_vars

\* the path names a location: it starts at '~' and each further segment is a
\* folder entry of the listing its prefix names, or the whole path is a registry key
locationExists(path) ==
  /\ Len(path) >= 1
  /\ path[1] = "~"
  /\ \/ currentNavKey(path) \in NavKeys
     \/ \A k \in 2 .. Len(path) :
          LET listing == NavEntries(currentNavKey(SubSeq(path, 1, k - 1)))
          IN  \E e \in DOMAIN listing :
                listing[e].type = "folder" /\ listing[e].id = path[k]

\* the menus the path can have: one for each file that may be remembered
menusOfPath(path) ==
  { menuOf(path, f) :
      f \in {NULL} \cup { NavEntries(currentNavKey(path))[e].id :
                            e \in DOMAIN NavEntries(currentNavKey(path)) } }

\* C33: the path always names a location that exists, and in every quiescent
\* state the menu on show is the menu of the current path (the root menu only
\* when the path is the root).
C33_MenuAgreesWithPath ==
  /\ locationExists(navPath)
  /\ (quiescent /\ menus(items) # << >>) => lastMenu(items) \in menusOfPath(navPath)

-----------------------------------------------------------------------------
(* Fair scheduling *)

\* The browser runs every effect and every timer that is due: the mount effect
\* and each kind of setTimeout callback are taken once they stay enabled. User
\* input is under no fairness.
Fairness ==
  /\ WF_vars(Mount)
  /\ WF_vars(\E i \in DOMAIN timers : TickFires(i))
  /\ WF_vars(\E i \in DOMAIN timers : BootTimerFires(i))
  /\ WF_vars(\E i \in DOMAIN timers : ReplyTimerFires(i))
  /\ WF_vars(\E i \in DOMAIN timers : ShowTimerFires(i))

SpecFair == Init /\ [][Next]_vars /\ Fairness

\* the transcript ends with an option menu
endsWithMenu == items # << >> /\ items[Len(items)].kind = "options"

\* C34: navigation never dead-ends. With timers firing fairly every timeout an
\* activation has set runs, so the transcript it leads to is the one of the state
\* where nothing is pending any more: there, with the window open, the transcript
\* ends with an option menu.
C34_NoDeadEnd == (quiescent /\ isOpen) => endsWithMenu

\* the rows finalizeTyping ends a reply with, without ids
replyRows(section) ==
  << [kind |-> "message", type |-> "system", content |-> getResponse(section)] >> \o
  (IF section = "contact" THEN << [kind |-> "contact-btn"] >> ELSE << >>) \o
  << [kind |-> "options", options |-> FOLLOW_UP_OPTIONS] >>

\* C35: a Select decision enters the log in the step that resolves its reply: that
\* step appends it alone, is no click, and puts the reply turn and the follow-up
\* menu in place of the typing row; a click never changes the log.
C35_SelectLoggedWithReply ==
  [][/\ (/\ phase = "running"
          /\ sessionActions' # sessionActions
          /\ sessionActions' # << >>
          /\ sessionActions'[Len(sessionActions')].type = "select")
          => /\ appendsOne
             /\ inputs' = inputs
             /\ resolved' = "reply"
             /\ stripIds(items') =
                  stripIds(settledRows(items)) \o
                  replyRows(sessionActions'[Len(sessionActions')].section)
     /\ inputs' # inputs => sessionActions' = sessionActions]_vars

\* a reply has just resolved and its decision is the last of the log
C35_Witness ==
  /\ resolved = "reply"
  /\ Len(sessionActions) = 2
  /\ sessionActions[2].type = "select"
  /\ endsWithMenu

\* C36: with working storage the stored record equals the log after every change
\* of the log to a non-empty one; storage is written only once the stored log has
\* been loaded, and then with the non-empty log in memory; the mount takes the
\* stored list as the log, and a session that started from a stored list never
\* leaves a shorter one in storage.
C36_StoredLogFollowsLog ==
  [][/\ (sessionActions' # sessionActions /\ sessionActions' # << >>)
          => stSession' = JSONstringify(sessionActions')
     /\ stSession' # stSession
          => /\ hasLoaded
             /\ sessionActions' # << >>
             /\ stSession' = JSONstringify(sessionActions')
     /\ (phase = "constructed" /\ phase' = "running" /\ stSession.kind = "list")
          => sessionActions' = stSession.log
     /\ (reconstructedRef'.set /\ stSession.kind = "list")
          => /\ stSession'.kind = "list"
             /\ Len(stSession'.log) >= Len(stSession.log)]_vars

\* after a reload the page started from the stored list and a further decision
\* has just been written
C36_Witness ==
  /\ reloaded
  /\ reconstructedRef.set
  /\ resolved = "reply"
  /\ Len(sessionActions) = 3
  /\ stSession = JSONstringify(sessionActions)

\* the ticks the pending reveals still need at most: text.length - idx for each
RECURSIVE ticksLeft(_)
ticksLeft(ts) ==
  IF ts = << >> THEN 0
  ELSE (IF Head(ts).kind = "tick" THEN Chars(Head(ts).text) - Head(ts).idx ELSE 0)
       + ticksLeft(Tail(ts))

\* C37: every reveal terminates. A pending tick of a reveal of n characters has run
\* fewer than n times; while the typing flag is set a tick is pending, and a pending
\* tick can always fire; each tick either resolves its reveal (at the latest the
\* n-th, at once when skipped), clearing the flag and calling onDone, or leaves
\* one more tick with one character more; so under fair firing the ticks left run
\* out and the flag does not stay set. With the flag clear a click on an option is
\* accepted.
C37_RevealTerminates ==
  /\ [](/\ \A i \in tickTimers : timers[i].idx < Chars(timers[i].text)
        /\ isTyping => tickTimers # {}
        /\ tickTimers # {} => phase = "running" /\ \E i \in tickTimers : mayFire(i))
  /\ [][/\ \A i \in DOMAIN timers :
            TickFires(i) =>
              /\ ticksLeft(timers') < ticksLeft(timers)
              /\ IF resolves(Cur, timers[i])
                 THEN /\ ~isTyping'
                      /\ calls'[timers[i].key].done = 1
                      /\ tickRecords(timers', timers[i].key) = {}
                 ELSE tickRecords(timers', timers[i].key) =
                        { TickTimer(timers[i].key, timers[i].idx + 1,
                                    timers[i].text, timers[i].done) }
        /\ \A i \in DOMAIN items : \A j \in 1 .. 6 :
            (~isTyping /\ Select(i, j)) => tracked' # << >>]_vars

\* the welcome has just resolved on its last tick, no input having skipped it, and
\* the menu is on show
C37_Witness ==
  /\ resolved = "welcome"
  /\ inputs = 0
  /\ ~isTyping
  /\ tickTimers = {}
  /\ endsWithMenu

====
